---- MODULE Spec2Model ----
(***************************************************************************)
(* Model of dashboard_app.py: the cached load_data pipeline (type          *)
(* coercion, calendar features, median imputation) and the Streamlit       *)
(* script that filters the table by city and product line and renders the  *)
(* charts.  One script run is one synchronous step; the steps of the state *)
(* machine are the first run of a session, the reruns a widget change      *)
(* triggers, and changes of the CSV file on disk.                          *)
(*                                                                         *)
(* Text is a sequence of one-character strings.  A cell of a column is     *)
(* <<>> when missing (NaN / NaT) and <<v>> when it holds the value v.       *)
(***************************************************************************)
EXTENDS Integers, Sequences, FiniteSets, TLC

\* ---------------------------------------------------------------- bounds
MaxRows == 2        \* rows of a file of Spec
MaxLoadRows == 4    \* rows of a file of SpecLoad
MaxParses == 2      \* cap of the counter parses
MaxEdits == 1       \* changes of the file under a running process

\* ------------------------------------------------------- program constants
PairplotCap == 500
Plot3dCap == 1000

\* ------------------------------------------------------------ text helpers
Missing == <<>>

IsNull(cell) == cell = Missing

DigitChars == <<"0", "1", "2", "3", "4", "5", "6", "7", "8", "9">>

IsDigit(ch) == \E i \in 1..10 : DigitChars[i] = ch

DigitVal(ch) == (CHOOSE i \in 1..10 : DigitChars[i] = ch) - 1

AllDigits(text) == Len(text) > 0 /\ \A i \in 1..Len(text) : IsDigit(text[i])

RECURSIVE Number(_)
Number(text) ==
    IF text = <<>> THEN 0
    ELSE 10 * Number(SubSeq(text, 1, Len(text) - 1)) + DigitVal(text[Len(text)])

RECURSIVE ZeroPad(_, _)
ZeroPad(n, width) ==
    IF width = 0 THEN <<>>
    ELSE Append(ZeroPad(n \div 10, width - 1), DigitChars[(n % 10) + 1])

RECURSIVE Split(_, _)
Split(text, sep) ==
    IF \A i \in 1..Len(text) : text[i] # sep THEN <<text>>
    ELSE LET k == CHOOSE i \in 1..Len(text) :
                      text[i] = sep /\ \A j \in 1..(i - 1) : text[j] # sep
         IN  <<SubSeq(text, 1, k - 1)>> \o Split(SubSeq(text, k + 1, Len(text)), sep)

Min(a, b) == IF a < b THEN a ELSE b

\* ------------------------------------------------------------- input file
\* Header names as they stand in the CSV, and their canonical names.
Headers == {"City", "Customer type", "Product line", "Total", "Date"}

\* col.strip().lower().replace(' ', '').replace('%', 'percent'), tabulated
\* over the header names of the file.
Canonical(col) ==
    CASE col = "City" -> "city"
      [] col = "Customer type" -> "customertype"
      [] col = "Product line" -> "productline"
      [] col = "Total" -> "total"
      [] col = "Date" -> "date"

Cities == {"Yangon", "Mandalay"}
ProductLines == {"Health and beauty", "Food and beverages"}
CustomerTypes == {"Member", "Normal"}

\* "1/5/2019" and "13/5/2019" (no month 13).
GoodDate == <<"1", "/", "5", "/", "2", "0", "1", "9">>
BadDate == <<"1", "3", "/", "5", "/", "2", "0", "1", "9">>
RawDates == {GoodDate, BadDate}

\* "10", "30" and "n/a".
RawTotals == { <<"1", "0">>, <<"3", "0">>, <<"n", "/", "a">> }

RawRow(c, t, p, tot, d) ==
    [h \in Headers |->
        CASE h = "City" -> <<c>>
          [] h = "Customer type" -> <<t>>
          [] h = "Product line" -> <<p>>
          [] h = "Total" -> <<tot>>
          [] h = "Date" -> <<d>>]

\* Rows of Spec: every city, type, line and total, the date well-formed.
ViewRows ==
    { RawRow(c, t, p, tot, GoodDate) :
        c \in Cities, t \in CustomerTypes, p \in ProductLines, tot \in RawTotals }

\* Rows of SpecLoad: every total and date, of one city, type and line.
LoadRows ==
    { RawRow("Yangon", "Member", "Health and beauty", tot, d) :
        tot \in RawTotals, d \in RawDates }

Restrict(f, S) == [x \in S |-> f[x]]

\* The headers the model reads: every column present, or one of the structural
\* columns city, product line, date absent.
HeaderSets ==
    {Headers} \cup { Headers \ {h} : h \in {"City", "Product line", "Date"} }

RowsOver(rows, hs) == { Restrict(r, hs) : r \in rows }

\* The file on disk: absent, present with no content, or a header and rows.
NoFile == [kind |-> "missing", header |-> {}, rows |-> <<>>]
EmptyFile == [kind |-> "empty", header |-> {}, rows |-> <<>>]
CsvFile(hs, rs) == [kind |-> "csv", header |-> hs, rows |-> rs]

\* ------------------------------------------------------------- load_data
\* pd.to_numeric(text, errors='coerce')
ToNumeric(cell) ==
    IF IsNull(cell) THEN Missing
    ELSE IF AllDigits(cell[1]) THEN <<Number(cell[1])>> ELSE Missing

IsLeap(y) == (y % 4 = 0 /\ y % 100 # 0) \/ y % 400 = 0

DaysInMonth(y, m) ==
    IF m = 2 THEN (IF IsLeap(y) THEN 29 ELSE 28)
    ELSE IF m \in {4, 6, 9, 11} THEN 30 ELSE 31

\* pd.to_datetime(text, format='%m/%d/%Y', errors='coerce')
ToDatetime(cell) ==
    IF IsNull(cell) THEN Missing
    ELSE LET parts == Split(cell[1], "/")
         IN  IF /\ Len(parts) = 3
                /\ \A i \in 1..3 : AllDigits(parts[i])
                /\ Len(parts[1]) \in 1..2
                /\ Len(parts[2]) \in 1..2
                /\ Len(parts[3]) = 4
             THEN LET m == Number(parts[1])
                      d == Number(parts[2])
                      y == Number(parts[3])
                  IN  IF m \in 1..12 /\ y >= 1 /\ d >= 1 /\ d <= DaysInMonth(y, m)
                      THEN <<[year |-> y, month |-> m, day |-> d]>>
                      ELSE Missing
             ELSE Missing

NaTText == <<"N", "a", "T">>

\* .dt.to_period('M').astype(str)
PeriodText(date) ==
    IF IsNull(date) THEN <<NaTText>>
    ELSE <<ZeroPad(date[1].year, 4) \o <<"-">> \o ZeroPad(date[1].month, 2)>>

day_order ==
    <<"Monday", "Tuesday", "Wednesday", "Thursday", "Friday", "Saturday", "Sunday">>

\* Day of the week, 0 = Monday.
Weekday(date) ==
    LET t == <<0, 3, 2, 5, 0, 3, 5, 1, 4, 6, 2, 4>>
        y == IF date.month < 3 THEN date.year - 1 ELSE date.year
        sunday0 == (y + (y \div 4) - (y \div 100) + (y \div 400)
                      + t[date.month] + date.day) % 7
    IN  (sunday0 + 6) % 7

\* .dt.day_name(), then pd.Categorical(..., categories=day_order)
DayName(date) ==
    IF IsNull(date) THEN Missing
    ELSE LET name == day_order[Weekday(date[1]) + 1]
         IN  IF \E i \in 1..7 : day_order[i] = name THEN <<name>> ELSE Missing

\* .dt.hour of a timestamp parsed from a date without a time of day
Hour(date) == IF IsNull(date) THEN Missing ELSE <<0>>

Column(rows, col) == [i \in 1..Len(rows) |-> rows[i][col]]

Present(cells) == SelectSeq(cells, LAMBDA c : ~IsNull(c))

\* Variant of Median that takes the lower of the two middle values.
MedianLow(cells) ==
    LET vals == SortSeq([i \in 1..Len(Present(cells)) |-> Present(cells)[i][1]],
                        LAMBDA a, b : a < b)
        n == Len(vals)
    IN  IF n = 0 THEN Missing ELSE <<vals[(n + 1) \div 2]>>

\* Series.median(): missing entries are skipped; NaN when none is present.
Median(cells) ==
    LET vals == SortSeq([i \in 1..Len(Present(cells)) |-> Present(cells)[i][1]],
                        LAMBDA a, b : a < b)
        n == Len(vals)
    IN  IF n = 0 THEN Missing
        ELSE IF n % 2 = 1 THEN <<vals[(n + 1) \div 2]>>
        ELSE <<(vals[n \div 2] + vals[(n \div 2) + 1]) \div 2>>

\* df[col].fillna(value, inplace=True); filling with NaN changes nothing.
FillNa(cell, value) == IF IsNull(cell) THEN value ELSE cell

numeric_cols ==
    {"unitprice", "quantity", "tax5percent", "total", "cogs",
     "grossmarginpercentage", "grossincome", "rating"}

\* df.select_dtypes(include=np.number).columns
NumberColumns(cols) == (cols \cap numeric_cols) \cup {"hour"}

Impute(rows, cols) ==
    LET anyNull == \E i \in 1..Len(rows) : \E c \in DOMAIN rows[i] : IsNull(rows[i][c])
        med == [c \in NumberColumns(cols) |-> Median(Column(rows, c))]
    IN  IF anyNull
        THEN [i \in 1..Len(rows) |->
                [c \in DOMAIN rows[i] |->
                    IF c \in NumberColumns(cols) THEN FillNa(rows[i][c], med[c])
                    ELSE rows[i][c]]]
        ELSE rows

\* One row after renaming, date parsing, feature extraction and coercion.
PrepareRow(raw, hs) ==
    LET date == ToDatetime(raw["Date"])
    IN  [c \in {Canonical(h) : h \in hs} \cup {"month", "dayofweek", "hour"} |->
            CASE c = "date" -> date
              [] c = "month" -> PeriodText(date)
              [] c = "dayofweek" -> DayName(date)
              [] c = "hour" -> Hour(date)
              [] c = "total" -> ToNumeric(raw["Total"])
              [] c = "city" -> raw["City"]
              [] c = "productline" -> raw["Product line"]
              [] c = "customertype" -> raw["Customer type"]]

\* Lines 33-50: the rows before imputation.
Prepared(file) ==
    [i \in 1..Len(file.rows) |-> PrepareRow(file.rows[i], file.header)]

Columns(file) ==
    {Canonical(h) : h \in file.header} \cup {"month", "dayofweek", "hour"}

\* Lines 30-56: the table load_data returns when nothing is raised.
LoadedTable(file) ==
    [columns |-> Columns(file), rows |-> Impute(Prepared(file), Columns(file))]

\* Variant of load_data_body in which a file without content yields a table
\* with no column instead of an error.
load_data_body_lenient(file) ==
    IF file.kind = "missing"
    THEN [value |-> <<>>, reported |-> "FileNotFoundError"]
    ELSE IF file.kind = "empty"
    THEN [value |-> <<[columns |-> {}, rows |-> <<>>]>>, reported |-> "none"]
    ELSE IF "Date" \notin file.header
    THEN [value |-> <<>>, reported |-> "KeyError"]
    ELSE [value |-> <<LoadedTable(file)>>, reported |-> "none"]

\* Variant of load_data_body that rejects a file lacking a structural column.
load_data_body_guarded(file) ==
    IF file.kind = "missing"
    THEN [value |-> <<>>, reported |-> "FileNotFoundError"]
    ELSE IF file.kind = "empty"
    THEN [value |-> <<>>, reported |-> "EmptyDataError"]
    ELSE IF {"City", "Product line", "Date"} \ file.header # {}
    THEN [value |-> <<>>, reported |-> "KeyError"]
    ELSE [value |-> <<LoadedTable(file)>>, reported |-> "none"]

\* The body of load_data: the table (or None, <<>>) and the error reported.
\* read_csv raises FileNotFoundError for a missing file and EmptyDataError
\* for a file without a header; df['date'] raises KeyError without the column.
load_data_body(file) ==
    IF file.kind = "missing"
    THEN [value |-> <<>>, reported |-> "FileNotFoundError"]
    ELSE IF file.kind = "empty"
    THEN [value |-> <<>>, reported |-> "EmptyDataError"]
    ELSE IF "Date" \notin file.header
    THEN [value |-> <<>>, reported |-> "KeyError"]
    ELSE [value |-> <<LoadedTable(file)>>, reported |-> "none"]

\* Variant of load_data without the cache: the body runs at every call.
load_data_uncached(entry, file) ==
    [result |-> load_data_body(file), entry |-> <<load_data_body(file)>>,
     parsed |-> TRUE]

\* @st.cache_data: the body runs when the cache holds no entry for the path;
\* its return value and the messages it showed are stored, None included.
load_data(entry, file) ==
    IF entry # <<>>
    THEN [result |-> entry[1], entry |-> entry, parsed |-> FALSE]
    ELSE [result |-> load_data_body(file), entry |-> <<load_data_body(file)>>,
          parsed |-> TRUE]

\* ------------------------------------------------------------ the script
Index(table) == 1..Len(table.rows)

Unique(table, index, col) == { table.rows[i][col][1] : i \in index }

EmptyFrame == [columns |-> {}, index |-> {}]

\* Variant of IsEmpty that never finds a frame empty.
IsEmptyNever(frame) == FALSE

\* DataFrame.empty
IsEmpty(frame) == frame.index = {} \/ frame.columns = {}

\* Variant of CityFilter without the "Todas" sentinel.
CityFilterNoSentinel(table, selected_city) ==
    [columns |-> table.columns,
     index |-> { i \in Index(table) : table.rows[i]["city"] = <<selected_city>> }]

\* data[data['city'] == selected_city], or data.copy() for "Todas"
CityFilter(table, selected_city) ==
    IF selected_city # "Todas"
    THEN [columns |-> table.columns,
          index |-> { i \in Index(table) : table.rows[i]["city"] = <<selected_city>> }]
    ELSE [columns |-> table.columns, index |-> Index(table)]

\* filtered_data[filtered_data['productline'].isin(selected_lines)], or an
\* empty DataFrame when nothing is selected
LineFilter(table, frame, selected_lines) ==
    IF selected_lines # {}
    THEN [columns |-> frame.columns,
          index |-> { i \in frame.index :
                        table.rows[i]["productline"][1] \in selected_lines }]
    ELSE EmptyFrame

\* Variant of MultiselectValue that keeps the stored selection when the
\* options change.
MultiselectValueStale(widget, options) ==
    IF widget # <<>> THEN widget[1].value ELSE options

\* The value the multiselect returns: the stored selection while its options
\* are the ones it was created with, its default (every option) otherwise.
MultiselectValue(widget, options) ==
    IF widget # <<>> /\ widget[1].options = options
    THEN widget[1].value
    ELSE options

RECURSIVE SumOver(_, _, _)
SumOver(table, index, col) ==
    IF index = {} THEN 0
    ELSE LET i == CHOOSE j \in index : TRUE
             v == IF IsNull(table.rows[i][col]) THEN 0 ELSE table.rows[i][col][1]
         IN  v + SumOver(table, index \ {i}, col)

\* filtered_data.groupby('month')['total'].sum()
SalesOverTime(table, frame) ==
    [m \in Unique(table, frame.index, "month") |->
        SumOver(table, { i \in frame.index : table.rows[i]["month"] = <<m>> }, "total")]

BarKey(table, i) == <<table.rows[i]["productline"][1], table.rows[i]["customertype"][1]>>

\* Variant of BarValues that ignores the hue: each bar sums its whole line.
BarValuesByLine(table, frame) ==
    LET kept == { i \in frame.index : ~IsNull(table.rows[i]["total"]) }
    IN  [k \in { BarKey(table, i) : i \in kept } |->
            SumOver(table, { i \in kept : BarKey(table, i)[1] = k[1] }, "total")]

\* sns.barplot(x="total", y="productline", hue="customertype", estimator=sum):
\* rows without a total are left out, the rest summed per (line, type) pair.
BarValues(table, frame) ==
    LET kept == { i \in frame.index : ~IsNull(table.rows[i]["total"]) }
    IN  [k \in { BarKey(table, i) : i \in kept } |->
            SumOver(table, { i \in kept : BarKey(table, i) = k }, "total")]

pairplot_vars == {"unitprice", "quantity", "total", "rating"}

\* filtered_data[pairplot_vars + ['productline']].dropna()
PairplotRows(table, frame) ==
    { i \in frame.index :
        \A c \in (pairplot_vars \cup {"productline"}) \cap frame.columns :
            ~IsNull(table.rows[i][c]) }

\* The n requested of .sample() for the pair plot
PairplotN(frame) == Min(PairplotCap, Cardinality(frame.index))

\* DataFrame.sample(n=n): the possible draws without replacement; none when
\* n exceeds the population (ValueError).
Sample(population, n) ==
    IF n > Cardinality(population) THEN {}
    ELSE { S \in SUBSET population : Cardinality(S) = n }

Blank ==
    [data |-> <<>>, elements |-> <<>>, exception |-> "none",
     cities |-> {}, selected_city |-> "", product_lines |-> {},
     selected_lines |-> {}, filtered_data |-> EmptyFrame,
     sales_over_time |-> <<>>, bars |-> <<>>,
     pairplot_n |-> 0, pairplot_rows |-> {}, pairplot_sample |-> {},
     plot_3d_sample |-> {}]

LoadElements(reported) ==
    IF reported = "FileNotFoundError" THEN <<"error: FileNotFoundError", "info">>
    ELSE IF reported = "none" THEN <<>>
    ELSE <<"exception">>

\* The charts of a non-empty view, lines 118-246: the outcomes of the run,
\* one per draw of the two samples.
Render(base, table) ==
    LET frame == base.filtered_data
        one == [base EXCEPT
                  !.sales_over_time = SalesOverTime(table, frame),
                  !.bars = BarValues(table, frame),
                  !.pairplot_n = PairplotN(frame),
                  !.pairplot_rows = PairplotRows(table, frame),
                  !.elements = @ \o <<"line chart", "histogram", "bar chart", "heatmap">>]
        draws == Sample(one.pairplot_rows, one.pairplot_n)
    IN  IF draws = {}
        THEN { [one EXCEPT !.exception = "ValueError"] }
        ELSE { [one EXCEPT !.pairplot_sample = s, !.plot_3d_sample = t,
                           !.elements = @ \o <<"pair plot", "3d scatter", "expander 6">>] :
                 s \in draws,
                 t \in Sample(frame.index, Min(Plot3dCap, Cardinality(frame.index))) }

\* Lines 71-250: one run of the script, given what load_data returned and
\* the state of the two widgets.
Script(loaded, city_widget, lines_widget) ==
    LET start == [Blank EXCEPT !.data = loaded.value,
                               !.elements = LoadElements(loaded.reported)]
    IN  IF loaded.value = <<>>
        THEN { [start EXCEPT !.elements = @ \o <<"error: unavailable">>] }
        ELSE
        LET table == loaded.value[1]
            headed == [start EXCEPT !.elements = @ \o <<"title", "sidebar header">>]
        IN  IF "city" \notin table.columns
            THEN { [headed EXCEPT !.exception = "KeyError: city"] }
            ELSE
            LET cities == Unique(table, Index(table), "city")
                selected_city ==
                    IF city_widget \in cities THEN city_widget ELSE "Todas"
                byCity == CityFilter(table, selected_city)
                chosen == [headed EXCEPT !.cities = cities,
                                         !.selected_city = selected_city,
                                         !.filtered_data = byCity,
                                         !.elements = @ \o <<"selectbox">>]
            IN  IF "productline" \notin table.columns
                THEN { [chosen EXCEPT !.exception = "KeyError: productline"] }
                ELSE
                LET product_lines == Unique(table, byCity.index, "productline")
                    selected_lines == MultiselectValue(lines_widget, product_lines)
                    frame == LineFilter(table, byCity, selected_lines)
                    base == [chosen EXCEPT
                               !.product_lines = product_lines,
                               !.selected_lines = selected_lines,
                               !.filtered_data = frame,
                               !.elements = @ \o <<"multiselect">>
                                   \o (IF selected_lines = {}
                                       THEN <<"sidebar warning">> ELSE <<>>)
                                   \o <<"expander 1">>]
                IN  IF ~IsEmpty(frame)
                    THEN Render(base, table)
                    ELSE { [base EXCEPT !.elements = @ \o <<"error: no data">>] }

\* ------------------------------------------------------------------ state
VARIABLES
    disk,       \* data.csv as it stands on disk
    edits,      \* changes made to the file since the process started
    seen,       \* the value of edits when the script last ran
    started,    \* the process is serving a session
    cache,      \* st.cache_data's entry for data_file_path: <<>> or <<entry>>
    parses,     \* executions of the body of load_data (capped at MaxParses)
    run         \* the globals and the page of the latest script run

vars == <<disk, edits, seen, started, cache, parses, run>>

Init ==
    /\ disk \in {NoFile, EmptyFile} \cup { CsvFile(hs, <<>>) : hs \in HeaderSets }
    /\ edits = 0
    /\ seen = 0
    /\ started = FALSE
    /\ cache = <<>>
    /\ parses = 0
    /\ run = Blank

\* Before the app is started, a row is appended to the CSV file.
Write(rows, limit) ==
    /\ ~started
    /\ disk.kind = "csv"
    /\ Len(disk.rows) < limit
    /\ \E r \in RowsOver(rows, disk.header) :
          disk' = [disk EXCEPT !.rows = Append(@, r)]
    /\ UNCHANGED <<edits, seen, started, cache, parses, run>>

WriteRow == Write(ViewRows, MaxRows)

WriteLoadRow == Write(LoadRows, MaxLoadRows)

\* One run of the script with the widgets in the given state.
Execute(city_widget, lines_widget) ==
    LET call == load_data(cache, disk)
    IN  /\ cache' = call.entry
        /\ parses' = IF call.parsed /\ parses < MaxParses THEN parses + 1 ELSE parses
        /\ run' \in Script(call.result, city_widget, lines_widget)
        /\ seen' = edits

HasElement(r, e) == \E i \in 1..Len(r.elements) : r.elements[i] = e

\* The session's state of the multiselect, once a run has created it.
LinesWidget ==
    IF HasElement(run, "multiselect")
    THEN <<[options |-> run.product_lines, value |-> run.selected_lines]>>
    ELSE <<>>

\* The first run of a session: both widgets at their defaults.
FirstRun ==
    /\ ~started
    /\ started' = TRUE
    /\ Execute("Todas", <<>>)
    /\ UNCHANGED <<disk, edits>>

\* The user picks another city in the selectbox; the script reruns.
SelectCity ==
    /\ started
    /\ HasElement(run, "selectbox")
    /\ \E c \in ({"Todas"} \cup run.cities) \ {run.selected_city} :
          Execute(c, LinesWidget)
    /\ UNCHANGED <<disk, edits, started>>

\* The user changes the product lines in the multiselect; the script reruns.
SelectLines ==
    /\ started
    /\ HasElement(run, "multiselect")
    /\ \E S \in (SUBSET run.product_lines) \ {run.selected_lines} :
          Execute(run.selected_city,
                  <<[options |-> run.product_lines, value |-> S]>>)
    /\ UNCHANGED <<disk, edits, started>>

\* The user reruns the script without touching a widget.
Rerun ==
    /\ started
    /\ Execute(run.selected_city, LinesWidget)
    /\ UNCHANGED <<disk, edits, started>>

\* While the app runs, the file is deleted.
DeleteFile ==
    /\ started
    /\ edits < MaxEdits
    /\ disk.kind # "missing"
    /\ disk' = NoFile
    /\ edits' = edits + 1
    /\ UNCHANGED <<seen, started, cache, parses, run>>

\* While the app runs, a file that was missing is put in place.
CreateFile ==
    /\ started
    /\ edits < MaxEdits
    /\ disk.kind = "missing"
    /\ disk' = CsvFile(Headers, <<RawRow("Yangon", "Member", "Health and beauty",
                                         <<"1", "0">>, GoodDate)>>)
    /\ edits' = edits + 1
    /\ UNCHANGED <<seen, started, cache, parses, run>>

\* SpecLoad starts from the full header.
InitLoad ==
    /\ disk \in {NoFile, EmptyFile, CsvFile(Headers, <<>>)}
    /\ edits = 0
    /\ seen = 0
    /\ started = FALSE
    /\ cache = <<>>
    /\ parses = 0
    /\ run = Blank

\* The sessions over a file that stays as it was written.
Next ==
    \/ WriteRow
    \/ FirstRun
    \/ SelectCity
    \/ SelectLines
    \/ Rerun

Spec == Init /\ [][Next]_vars

\* The sessions over a file that changes under the running process.
NextLoad ==
    \/ WriteLoadRow
    \/ FirstRun
    \/ SelectCity
    \/ SelectLines
    \/ Rerun
    \/ DeleteFile
    \/ CreateFile

SpecLoad == InitLoad /\ [][NextLoad]_vars
\* ------------------------------------------------------------ properties
Ran == started

Loaded == started /\ run.data # <<>>

Table == run.data[1]

Filtered == Loaded /\ HasElement(run, "multiselect")

ChartNames ==
    {"line chart", "histogram", "bar chart", "heatmap", "pair plot", "3d scatter"}

ChartsShown == { e \in ChartNames : HasElement(run, e) }

\* C1: every row whose date does not parse has month, dayofweek and hour
\* missing in the table load_data returns.
C1_UnparsedDateLeavesFeaturesMissing ==
    Loaded =>
        \A i \in Index(Table) :
            IsNull(Table.rows[i]["date"]) =>
                /\ IsNull(Table.rows[i]["month"])
                /\ IsNull(Table.rows[i]["dayofweek"])
                /\ IsNull(Table.rows[i]["hour"])

\* The k-th smallest of the present values of a column, by rank.
KthSmallest(cells, k) ==
    LET vals == { cells[i][1] : i \in { j \in 1..Len(cells) : ~IsNull(cells[j]) } }
        below(x) == Cardinality({ j \in 1..Len(cells) :
                                    ~IsNull(cells[j]) /\ cells[j][1] < x })
        upto(x) == Cardinality({ j \in 1..Len(cells) :
                                   ~IsNull(cells[j]) /\ cells[j][1] <= x })
    IN  CHOOSE x \in vals : below(x) < k /\ k <= upto(x)

\* v is the median of the present values of the column.
IsMedianOf(v, cells) ==
    LET n == Cardinality({ j \in 1..Len(cells) : ~IsNull(cells[j]) })
    IN  /\ n > 0
        /\ IF n % 2 = 1
           THEN v = KthSmallest(cells, (n + 1) \div 2)
           ELSE 2 * v = KthSmallest(cells, n \div 2) + KthSmallest(cells, (n \div 2) + 1)

\* The column col is imputed: nothing missing, the missing entries at the
\* median of the present ones, the present entries as they were.
Imputed(before, after, col) ==
    \A i \in 1..Len(before) :
        /\ ~IsNull(after[i][col])
        /\ IsNull(before[i][col]) => IsMedianOf(after[i][col][1], Column(before, col))
        /\ ~IsNull(before[i][col]) => after[i][col] = before[i][col]

HasMissing(rows, col) == \E i \in 1..Len(rows) : IsNull(rows[i][col])

HasPresent(rows, col) == \E i \in 1..Len(rows) : ~IsNull(rows[i][col])

\* The table in the cache was loaded from the file as it stands on disk.
LoadedFromDisk == Loaded /\ edits = 0

\* C2 as stated: every numeric column with a missing value after coercion,
\* a column with nothing but missing values included, is imputed.
C2_EveryColumnWithMissingImputed ==
    LoadedFromDisk =>
        LET before == Prepared(disk)
        IN  \A col \in NumberColumns(Table.columns) :
                HasMissing(before, col) => Imputed(before, Table.rows, col)

\* C2 amended: every numeric column with a missing and a present value after
\* coercion is imputed; a column with nothing but missing values stays so.
C2_ColumnWithMissingAndPresentImputed ==
    LoadedFromDisk =>
        LET before == Prepared(disk)
        IN  \A col \in NumberColumns(Table.columns) :
                /\ (HasMissing(before, col) /\ HasPresent(before, col))
                      => Imputed(before, Table.rows, col)
                /\ ~HasPresent(before, col)
                      => \A i \in Index(Table) : IsNull(Table.rows[i][col])

\* Totals 10 and 30 and an unreadable one: the missing entry becomes 20.
C2_Witness ==
    /\ LoadedFromDisk
    /\ LET before == Prepared(disk)
       IN  \E i, j, k \in Index(Table) :
              /\ IsNull(before[i]["total"])
              /\ before[j]["total"] = <<10>>
              /\ before[k]["total"] = <<30>>
              /\ Table.rows[i]["total"] = <<20>>

\* The rows a city and a set of product lines select.
Selected(table, city, lines) ==
    { i \in Index(table) :
        /\ city = "Todas" \/ table.rows[i]["city"][1] = city
        /\ table.rows[i]["productline"][1] \in lines }

\* C3: the filtered view is the set of rows of the selected city (all rows
\* for "Todas") whose product line is in the selected set; no product line,
\* or a city that is not in the data, gives an empty view.
C3_FilteredViewIsSelection ==
    Filtered =>
        /\ IsEmpty(run.filtered_data) => run.exception = "none"
        /\ run.filtered_data.index
              = Selected(Table, run.selected_city, run.selected_lines)
        /\ \A city \in Cities \cup {"Todas"} : \A lines \in SUBSET ProductLines :
              LET frame == LineFilter(Table, CityFilter(Table, city), lines)
              IN  /\ frame.index = Selected(Table, city, lines)
                  /\ lines = {} => IsEmpty(frame)
                  /\ city \notin run.cities \cup {"Todas"} => IsEmpty(frame)

\* A table of one city, shown with every product line deselected.
C3_Witness ==
    /\ Filtered
    /\ Len(Table.rows) = MaxRows
    /\ \E city \in Cities : city \notin run.cities
    /\ run.product_lines # {}
    /\ run.selected_lines = {}
    /\ IsEmpty(run.filtered_data)

\* C4: after a successful load an empty view shows no chart and the "no
\* data" message, and charts are shown only for a view that is not empty.
C4_EmptyViewShowsNoChart ==
    Filtered =>
        /\ IsEmpty(run.filtered_data)
              => ChartsShown = {} /\ HasElement(run, "error: no data")
        /\ ChartsShown # {}
              => ~IsEmpty(run.filtered_data) /\ ~HasElement(run, "error: no data")
        /\ Selected(Table, run.selected_city, run.selected_lines) = {}
              => ChartsShown = {}

\* A table with rows, every product line deselected.
C4_Witness ==
    /\ Filtered
    /\ Len(Table.rows) > 0
    /\ IsEmpty(run.filtered_data)
    /\ HasElement(run, "error: no data")

\* C5: a missing file, or any other exception in load_data, gives None and
\* an error report, and the page holds that report and the "unavailable"
\* error only; the body of load_data ran once.
C5_FailedLoadShowsOnlyUnavailable ==
    Ran =>
        /\ disk.kind # "csv" => run.data = <<>>
        /\ run.data = <<>> =>
              /\ cache[1].reported # "none"
              /\ run.elements
                    = LoadElements(cache[1].reported) \o <<"error: unavailable">>
              /\ run.exception = "none"
              /\ parses = 1

C5_Witness ==
    /\ Ran
    /\ disk.kind = "missing"
    /\ run.elements = <<"error: FileNotFoundError", "info", "error: unavailable">>

\* C6: the body of load_data runs at most once, every run of the script gets
\* the value of the first call, and the cache entry, once made, stays.
C6_ParsedOnceAndCached ==
    /\ [](parses <= 1 /\ (Ran => cache # <<>> /\ run.data = cache[1].value))
    /\ [][cache # <<>> => cache' = cache]_vars

\* The script has run after the file was deleted and still has the table.
C6_Witness ==
    /\ Loaded
    /\ edits = 1
    /\ seen = 1
    /\ disk.kind = "missing"
    /\ Len(Table.rows) > 0

\* C7: the pair plot asks for min(500, rows left after the drop) rows, never
\* more than are left, and the sampling does not fail.
C7_SampleSizeWithinRowsLeft ==
    (Filtered /\ ~IsEmpty(run.filtered_data)) =>
        /\ run.pairplot_n = Min(PairplotCap, Cardinality(run.pairplot_rows))
        /\ run.pairplot_n <= Cardinality(run.pairplot_rows)
        /\ run.exception # "ValueError"

\* The sum of total over the rows 1..n that are in the set, by position.
RECURSIVE TotalOf(_, _, _)
TotalOf(table, rows, n) ==
    IF n = 0 THEN 0
    ELSE TotalOf(table, rows, n - 1)
           + (IF n \in rows /\ ~IsNull(table.rows[n]["total"])
              THEN table.rows[n]["total"][1] ELSE 0)

RECURSIVE SumOfBars(_, _)
SumOfBars(bars, keys) ==
    IF keys = {} THEN 0
    ELSE LET k == CHOOSE x \in keys : TRUE
         IN  bars[k] + SumOfBars(bars, keys \ {k})

StructuralHeaders == {"City", "Product line", "Date"}

\* C9 as stated: without one of city, product line, date, load_data returns
\* a table and the run fails downstream at the first access to the column.
C9_MissingColumnFailsDownstream ==
    (Ran /\ disk.kind = "csv" /\ StructuralHeaders \ disk.header # {}) =>
        /\ run.data # <<>>
        /\ run.exception \in {"KeyError: city", "KeyError: productline", "KeyError: date"}

\* C9 amended: without city or product line load_data returns a table and
\* the run fails at the first access to the column; without date the access
\* fails inside load_data, which returns None, and the page is "unavailable".
C9_MissingColumnFailsAtFirstAccess ==
    (Ran /\ disk.kind = "csv") =>
        /\ "City" \notin disk.header =>
              /\ run.data # <<>>
              /\ run.exception = "KeyError: city"
              /\ run.elements = <<"title", "sidebar header">>
        /\ "Product line" \notin disk.header =>
              /\ run.data # <<>>
              /\ run.exception = "KeyError: productline"
              /\ run.elements = <<"title", "sidebar header", "selectbox">>
        /\ "Date" \notin disk.header =>
              /\ run.data = <<>>
              /\ cache[1].reported = "KeyError"
              /\ run.elements = <<"exception", "error: unavailable">>
        /\ StructuralHeaders \subseteq disk.header =>
              run.data # <<>> /\ run.exception \notin {"KeyError: city", "KeyError: productline"}

C9_Witness ==
    /\ Ran
    /\ disk.kind = "csv"
    /\ "City" \notin disk.header
    /\ Len(disk.rows) > 0
    /\ run.data # <<>>
    /\ run.exception = "KeyError: city"

\* C10: the options are the product lines of the selected city, so with a
\* table that has rows a selection of at least one product line never gives
\* an empty view.
C10_NonEmptySelectionNonEmptyView ==
    (Filtered /\ Len(Table.rows) > 0) =>
        /\ run.product_lines
              = { Table.rows[i]["productline"][1] :
                    i \in Selected(Table, run.selected_city, ProductLines) }
        /\ run.selected_lines \subseteq run.product_lines
        /\ run.selected_lines # {} => ~IsEmpty(run.filtered_data)
        /\ IsEmpty(run.filtered_data) => run.selected_lines = {}

\* A city that lacks a product line of the table, one of its lines selected.
C10_Witness ==
    /\ Filtered
    /\ run.selected_city # "Todas"
    /\ run.product_lines # Unique(Table, Index(Table), "productline")
    /\ run.selected_lines # {}
    /\ ~IsEmpty(run.filtered_data)
====
